---- MODULE Spec2Model ----
(***************************************************************************)
(* Model of configure.py: build_stuff (the ninja build graph and the       *)
(* objdiff manifest) and replace_instructions_with_opcodes (the short-loop *)
(* fix).  Paths and file contents are strings; pathlib and re are          *)
(* modelled by what they compute on those strings.                         *)
(***************************************************************************)
EXTENDS Integers, Sequences, FiniteSets, TLC

VARIABLES
    linker_entries,   \* build_stuff argument: the splat linker entries
    skip_checksum,    \* build_stuff argument
    objects_only,     \* build_stuff argument
    dual_objects,     \* build_stuff argument
    src_tree,         \* the files that exist under src/ on disk
    pos,              \* index of the next entry of the for loop (1-based)
    ninja,            \* the build statements written to build.ninja, in order
    built_objects,    \* build_stuff local: Set[Path]
    objdiff_units,    \* build_stuff local: list of manifest units
    objdiff_json,     \* the "units" of objdiff.json once written, else Unwritten
    status,           \* "running" | "returned" | "exit" | "raised"
    error,            \* exit code / exception that ended the run, "" if none
    split_output,     \* the files under asm/ as splat wrote them: path -> lines
    asm_tree,         \* the files under asm/ on disk now: path -> lines
    scanning,         \* a call of replace_instructions_with_opcodes is in its loop
    todo,             \* the files of its rglob the loop has not visited yet
    written,          \* the files the call in progress (or the last one) wrote
    runs,             \* completed calls of replace_instructions_with_opcodes
    first_pass        \* asm_tree as the first completed call left it

Inputs == <<linker_entries, skip_checksum, objects_only, dual_objects, src_tree>>

Asm == <<split_output, asm_tree, scanning, todo, written, runs, first_pass>>

vars == <<Inputs, pos, ninja, built_objects, objdiff_units, objdiff_json, status, error, Asm>>

-----------------------------------------------------------------------------
(* Bounds of the model.                                                     *)

MaxEntries == 3

-----------------------------------------------------------------------------
(* Strings.                                                                 *)

Max(S) == CHOOSE x \in S : \A y \in S : y <= x
Min(S) == CHOOSE x \in S : \A y \in S : x <= y

Char(s, k) == SubSeq(s, k, k)

\* Python `sub in s`.
Contains(s, sub) ==
    \E k \in 1..(Len(s) - Len(sub) + 1) : SubSeq(s, k, k + Len(sub) - 1) = sub

\* 1-based position of the last occurrence of the character c, 0 when absent.
RFind(s, c) ==
    LET I == {k \in 1..Len(s) : Char(s, k) = c}
    IN  IF I = {} THEN 0 ELSE Max(I)

\* 1-based position of the first occurrence of the character c, 0 when absent.
Find(s, c) ==
    LET I == {k \in 1..Len(s) : Char(s, k) = c}
    IN  IF I = {} THEN 0 ELSE Min(I)

-----------------------------------------------------------------------------
(* pathlib.PurePath on relative, normalised paths.                          *)

\* Path.name
name(p) == SubSeq(p, RFind(p, "/") + 1, Len(p))

\* Path.suffix: the last dot of the name, unless it is leading or trailing.
suffix(p) ==
    LET n == name(p)
        j == RFind(n, ".")
    IN  IF 1 < j /\ j < Len(n) THEN SubSeq(n, j, Len(n)) ELSE ""

\* Path.stem
stem(p) ==
    LET n == name(p)
        j == RFind(n, ".")
    IN  IF 1 < j /\ j < Len(n) THEN SubSeq(n, 1, j - 1) ELSE n

\* Path.with_suffix(sfx)
with_suffix(p, sfx) == SubSeq(p, 1, Len(p) - Len(suffix(p))) \o sfx

\* Path.parts
RECURSIVE parts(_)
parts(p) ==
    LET k == Find(p, "/")
    IN  IF k = 0 THEN <<p>>
        ELSE <<SubSeq(p, 1, k - 1)>> \o parts(SubSeq(p, k + 1, Len(p)))

\* str(Path(*ps))
RECURSIVE JoinPath(_)
JoinPath(ps) ==
    IF ps = <<>> THEN "."
    ELSE IF Len(ps) = 1 THEN ps[1]
    ELSE ps[1] \o "/" \o JoinPath(Tail(ps))

\* Path("src").rglob(filename) for a pattern without wildcards
rglob(tree, filename) ==
    {f \in tree : Len(parts(f)) >= 2 /\ parts(f)[1] = "src" /\ name(f) = filename}

-----------------------------------------------------------------------------
(* Constants of configure.py.                                               *)

OUT_DIR      == "build"
LINK_DIR     == "linkers"
CONFIG_PATH  == "configs"
BASENAME     == "SCES_512.48"
LD_PATH      == LINK_DIR \o "/" \o BASENAME \o ".ld"
ELF_PATH     == OUT_DIR \o "/" \o BASENAME
MAP_PATH     == OUT_DIR \o "/" \o BASENAME \o ".map"
PRE_ELF_PATH == OUT_DIR \o "/" \o BASENAME \o ".elf"
TARGET_DIR   == "target"

\* The ids of CATEGORY_MAP.
CATEGORY_MAP == {"game", "data"}

\* entry.object_path is None
None == ""

\* build()'s default orig_entry=None
NoEntry == [type |-> "", object_path |-> None, src_paths |-> <<>>]

\* categories is read before any assignment (UnboundLocalError)
Unbound == <<"<unbound>">>

Unwritten == <<"<objdiff.json not written>">>

\* seg.type[0] == "."
IsVirtual(seg_type) == Char(seg_type, 1) = "."

\* The isinstance chain that selects the "as" rule.
IsAsSegment(seg_type) ==
    seg_type \in {"asm", "data", "databin", "rodatabin", "textbin", "bin"}

\* The rule build_stuff picks for a segment type, None for the else branch.
Task(seg_type) ==
    IF IsAsSegment(seg_type) THEN "as"
    ELSE IF seg_type = "cpp" THEN "cpp"
    ELSE IF seg_type = "c" THEN "cc"
    ELSE None

-----------------------------------------------------------------------------
(* build(): the helper nested in build_stuff.                               *)

\* The output path of an object redirected into out_dir.
NewObjectPath(obj, out_dir) ==
    LET s == IF suffix(obj) \in {".s", ".c"} THEN stem(obj)
             ELSE IF suffix(obj) = ".o"
                      /\ suffix(with_suffix(obj, "")) \in {".s", ".c"}
                  THEN stem(with_suffix(obj, ""))
                  ELSE stem(obj)
    IN  out_dir \o "/" \o s \o ".o"

\* Mutation of AddBuiltObject: the output is never added.
AddBuiltObject_Never(objs, object_path) == objs

\* built_objects after the loop body has seen object_path.
AddBuiltObject(objs, object_path) ==
    IF suffix(object_path) = ".o" THEN objs \cup {object_path} ELSE objs

\* The statement ninja.build writes for one output.
Node(object_path, task, src_paths, extra_flags) ==
    [output   |-> object_path,
     rule     |-> task,
     inputs   |-> src_paths,
     cflags   |-> extra_flags,
     implicit |-> {}]

\* `rel`: the first source path without its asm/ or src/ root, or the object
\* path when the entry has no source.
Rel(src_paths, object_path) ==
    IF src_paths /= <<>>
    THEN LET ps == parts(src_paths[1])
         IN  IF ps[1] = "asm" \/ ps[1] = "src"
             THEN JoinPath(Tail(ps))
             ELSE src_paths[1]
    ELSE object_path

\* The unit's name.
UnitName(src_paths, object_path) ==
    IF src_paths /= <<>>
    THEN with_suffix(Rel(src_paths, object_path), "")
    ELSE stem(object_path)

\* has_src: a .c or .cpp file named after the unit exists under src/.
HasSrc(tree, rel) ==
    LET src_base == with_suffix(rel, "")
    IN  \/ rglob(tree, name(src_base) \o ".c") /= {}
        \/ rglob(tree, name(src_base) \o ".cpp") /= {}

\* categories, as the if/elif leaves it.
Categories(src_path) ==
    IF Contains(src_path, "src/") THEN <<"game">>
    ELSE IF Contains(src_path, "asm/data") THEN <<"data">>
    ELSE Unbound

\* The first part equal to "target" becomes "build/obj/src".
RECURSIVE ReplaceTargetPart(_)
ReplaceTargetPart(ps) ==
    IF ps = <<>> THEN <<>>
    ELSE IF ps[1] = "target" THEN <<"build/obj/src">> \o Tail(ps)
    ELSE <<ps[1]>> \o ReplaceTargetPart(Tail(ps))

\* base_path of a unit without hand-written source.
DefaultBasePath(obj_path, object_path) == obj_path

\* str.replace: every occurrence of old in s becomes new.
RECURSIVE StrReplace(_, _, _)
StrReplace(s, old, new) ==
    IF Len(s) < Len(old) THEN s
    ELSE IF SubSeq(s, 1, Len(old)) = old
         THEN new \o StrReplace(SubSeq(s, Len(old) + 1, Len(s)), old, new)
         ELSE Char(s, 1) \o StrReplace(Tail(s), old, new)

\* Mutation of SrcBasePath: substring replacement instead of a comparison
\* of path parts.
SrcBasePath_Substring(object_path) == StrReplace(object_path, "target", "build/obj/src")

\* base_path of a unit with hand-written source.
SrcBasePath(object_path) == JoinPath(ReplaceTargetPart(parts(object_path)))

\* The unit appended to objdiff_units.
Unit(obj_path, object_path, src_paths, tree, orig_entry) ==
    [name        |-> UnitName(src_paths, object_path),
     base_path   |-> IF HasSrc(tree, Rel(src_paths, object_path))
                     THEN SrcBasePath(object_path)
                     ELSE DefaultBasePath(obj_path, object_path),
     target_path |-> object_path,
     progress_categories |-> Categories(orig_entry.src_paths[1])]

\* One call of build() for a single object path.  st holds ninja,
\* built_objects, objdiff_units and error; the result is st after the call.
\* An exception leaves everything done before it in place.
build(object_path0, src_paths, task, out_dir, extra_flags, collect_objdiff, orig_entry, tree, st) ==
    LET obj_path    == object_path0
        object_path == IF out_dir /= "" THEN NewObjectPath(object_path0, out_dir)
                       ELSE object_path0
        emitted == [st EXCEPT
                      !.built_objects = AddBuiltObject(@, object_path),
                      !.ninja = Append(@, Node(object_path, task, src_paths,
                                               extra_flags))]
    IN  IF ~(collect_objdiff /\ orig_entry /= NoEntry) THEN emitted
        ELSE IF ~Contains(object_path, "target") THEN emitted
        ELSE IF orig_entry.src_paths = <<>>
             THEN [emitted EXCEPT !.error = "IndexError"]
        ELSE IF Categories(orig_entry.src_paths[1]) = Unbound
             THEN [emitted EXCEPT !.error = "UnboundLocalError"]
        ELSE [emitted EXCEPT
                !.objdiff_units = Append(@, Unit(obj_path, object_path,
                                                 src_paths, tree, orig_entry))]

-----------------------------------------------------------------------------
(* The inputs: linker entries as splat writes them (object paths end in    *)
(* ".o"; a virtual segment shares its parent's object) and the src/ tree.  *)

Entry(t, o, s) == [type |-> t, object_path |-> o, src_paths |-> s]

Entries ==
    { Entry("cpp",  "build/src/targets.cpp.o",        <<"src/targets.cpp">>),
      Entry("c",    "build/src/sub/foo.c.o",       <<"src/sub/foo.c">>),
      Entry("c",    "build/src/lib/foo.c.o",       <<"src/lib/foo.c">>),
      Entry("asm",  "build/asm/foo.s.o",           <<"asm/foo.s">>),
      Entry("data", "build/asm/data/foo.data.s.o", <<"asm/data/foo.data.s">>),
      Entry("data", None,                          <<>>),
      Entry(".bss", "build/src/targets.cpp.o",        <<"src/targets.cpp">>),
      Entry("lib",  "build/lib/libm.o",            <<>>),
      Entry("lib",  None,                          <<>>) }

SrcFiles == {"src/targets.cpp", "src/sub/foo.c"}

EntryLists == UNION {[1..n -> Entries] : n \in 0..MaxEntries}

\* No file under asm/nonmatchings, no call of the short-loop fix.
NoAsm ==
    /\ split_output = <<>>
    /\ asm_tree = <<>>
    /\ scanning = FALSE
    /\ todo = {}
    /\ written = {}
    /\ runs = 0
    /\ first_pass = <<>>

Init ==
    /\ NoAsm
    /\ linker_entries \in EntryLists
    /\ skip_checksum \in BOOLEAN
    /\ objects_only \in BOOLEAN
    /\ dual_objects \in BOOLEAN
    /\ src_tree \in SUBSET SrcFiles
    /\ pos = 1
    /\ ninja = <<>>
    /\ built_objects = {}
    /\ objdiff_units = <<>>
    /\ objdiff_json = Unwritten
    /\ status = "running"
    /\ error = ""

-----------------------------------------------------------------------------
(* build_stuff: one action per way through the body of the for loop, and   *)
(* one per way out of the function after it.                               *)

InLoop == status = "running" /\ pos <= Len(linker_entries)

AfterLoop == status = "running" /\ pos > Len(linker_entries)

Locals == [ninja |-> ninja, built_objects |-> built_objects, objdiff_units |-> objdiff_units, error |-> ""]

\* What the loop body leaves behind: the locals, and the next entry or the
\* exception.
Store(st) ==
    /\ ninja' = st.ninja
    /\ built_objects' = st.built_objects
    /\ objdiff_units' = st.objdiff_units
    /\ error' = st.error
    /\ status' = IF st.error = "" THEN "running" ELSE "raised"
    /\ pos' = IF st.error = "" THEN pos + 1 ELSE pos

\* The two calls of build() of dual mode; the second is not reached when
\* the first raises.
BuildTwice(entry, task, tree, st) ==
    LET first == build(entry.object_path, entry.src_paths, task, TARGET_DIR, "", TRUE, entry, tree, st)
    IN  IF first.error /= "" THEN first
        ELSE build(entry.object_path, entry.src_paths, task, "", "-DSKIP_ASM", FALSE, NoEntry, tree, first)

\* if seg.type[0] == ".": continue
SkipVirtual ==
    /\ InLoop
    /\ IsVirtual(linker_entries[pos].type)
    /\ pos' = pos + 1
    /\ UNCHANGED <<Asm, Inputs, ninja, built_objects, objdiff_units, objdiff_json, status, error>>

\* if entry.object_path is None: continue
SkipNoObject ==
    /\ InLoop
    /\ ~IsVirtual(linker_entries[pos].type)
    /\ linker_entries[pos].object_path = None
    /\ pos' = pos + 1
    /\ UNCHANGED <<Asm, Inputs, ninja, built_objects, objdiff_units, objdiff_json, status, error>>

Buildable(entry) ==
    /\ ~IsVirtual(entry.type)
    /\ entry.object_path /= None

\* dual_objects == False: one call of build()
BuildSingle ==
    /\ InLoop
    /\ Buildable(linker_entries[pos])
    /\ ~dual_objects
    /\ Task(linker_entries[pos].type) /= None
    /\ LET entry == linker_entries[pos]
       IN  Store(build(entry.object_path, entry.src_paths, Task(entry.type), "", "", FALSE, NoEntry, src_tree, Locals))
    /\ UNCHANGED <<Asm, Inputs, objdiff_json>>

\* dual_objects: the target object, recorded for objdiff, then the plain one
BuildDual ==
    /\ InLoop
    /\ Buildable(linker_entries[pos])
    /\ dual_objects
    /\ Task(linker_entries[pos].type) /= None
    /\ Store(BuildTwice(linker_entries[pos], Task(linker_entries[pos].type), src_tree, Locals))
    /\ UNCHANGED <<Asm, Inputs, objdiff_json>>

\* else: print("ERROR: Unsupported build segment type"); sys.exit(1)
Unsupported ==
    /\ InLoop
    /\ Buildable(linker_entries[pos])
    /\ Task(linker_entries[pos].type) = None
    /\ status' = "exit"
    /\ error' = "1"
    /\ UNCHANGED <<Asm, Inputs, pos, ninja, built_objects, objdiff_units, objdiff_json>>

\* if objects_only: write objdiff.json when dual_objects; return
ObjectsOnly ==
    /\ AfterLoop
    /\ objects_only
    /\ objdiff_json' = IF dual_objects THEN objdiff_units ELSE objdiff_json
    /\ status' = "returned"
    /\ UNCHANGED <<Asm, Inputs, pos, ninja, built_objects, objdiff_units, error>>

\* The ld statement.
LinkNode(objs) ==
    [output |-> PRE_ELF_PATH, rule |-> "ld", inputs |-> <<LD_PATH>>, cflags |-> "", implicit |-> objs]

\* The elf statement.
ElfNode ==
    [output |-> ELF_PATH, rule |-> "elf", inputs |-> <<PRE_ELF_PATH>>, cflags |-> "", implicit |-> {}]

\* The sha1sum statement.
ChecksumNode ==
    [output |-> ELF_PATH \o ".ok", rule |-> "sha1sum", inputs |-> <<CONFIG_PATH \o "/checksum.sha1">>, cflags |-> "", implicit |-> {ELF_PATH}]

\* The link, elf and checksum statements that end build_stuff.
Link ==
    /\ AfterLoop
    /\ ~objects_only
    /\ ninja' = ninja \o <<LinkNode(built_objects), ElfNode>> \o (IF skip_checksum THEN <<>> ELSE <<ChecksumNode>>)
    /\ status' = "returned"
    /\ UNCHANGED <<Asm, Inputs, pos, built_objects, objdiff_units, objdiff_json, error>>

Next ==
    \/ SkipVirtual
    \/ SkipNoObject
    \/ BuildSingle
    \/ BuildDual
    \/ Unsupported
    \/ ObjectsOnly
    \/ Link

Spec == Init /\ [][Next]_vars

-----------------------------------------------------------------------------
(* Vocabulary of the properties of build_stuff.                             *)

Finished == status /= "running"

Completed == status = "returned"

Recognized(entry) == Task(entry.type) /= None

\* The statements written for segments, in order.
SegmentNodes == SelectSeq(ninja, LAMBDA n : n.rule \in {"as", "cc", "cpp"})

Outputs == {ninja[k].output : k \in DOMAIN ninja}

NoSharedOutput ==
    \A a, b \in DOMAIN ninja : a /= b => ninja[a].output /= ninja[b].output

\* No two entries of the list declare the same output path.
DeclaredDistinct ==
    \A a, b \in DOMAIN linker_entries :
        (a /= b /\ linker_entries[a].object_path /= None)
            => linker_entries[a].object_path /= linker_entries[b].object_path

\* Two buildable segments of the list declare the same output path.
DeclaredCollision ==
    \E a, b \in DOMAIN linker_entries :
        /\ a /= b
        /\ Buildable(linker_entries[a]) /\ Recognized(linker_entries[a])
        /\ Buildable(linker_entries[b]) /\ Recognized(linker_entries[b])
        /\ linker_entries[a].object_path = linker_entries[b].object_path

\* The entries the loop has gone through that were handed to build().
Built == SelectSeq(SubSeq(linker_entries, 1, pos - 1), LAMBDA e : Buildable(e) /\ Recognized(e))

LinkEmitted == \E k \in DOMAIN ninja : ninja[k].rule = "ld"

\* A .c or .cpp file with this stem exists somewhere under src/.
SourceExists(unit_stem) ==
    \E f \in src_tree :
        /\ SubSeq(f, 1, 4) = "src/"
        /\ suffix(f) \in {".c", ".cpp"}
        /\ stem(f) = unit_stem

-----------------------------------------------------------------------------
(* C1: for a segment list whose declared output paths are pairwise         *)
(* distinct, no two statements of the build graph share an output path,    *)
(* in normal mode and with dual_objects.                                   *)
C1_UniqueOutputs == DeclaredDistinct => NoSharedOutput

(* C2: when two buildable segments declare the same output path the run    *)
(* aborts before a second statement with that output is written; it never  *)
(* holds two statements with the same output.                              *)
C2_CollisionAborts == DeclaredCollision => NoSharedOutput

(* C3: a run over a list holding a segment whose type is neither           *)
(* recognized nor virtual never returns normally: such a segment is not    *)
(* skipped, with or without an output path.                                *)
C3_UnknownTypeAborts ==
    (\E k \in DOMAIN linker_entries :
        ~IsVirtual(linker_entries[k].type) /\ ~Recognized(linker_entries[k]))
    => ~Completed

(* C4: once a run over recognized segments with output paths has ended,    *)
(* every segment has its statements: one per segment without dual_objects, *)
(* the target one and the plain one with it.                               *)
C4_NodesPerSegment ==
    (/\ Finished
     /\ \A k \in DOMAIN linker_entries :
            Buildable(linker_entries[k]) /\ Recognized(linker_entries[k]))
    => IF dual_objects
       THEN /\ Len(SegmentNodes) = 2 * Len(linker_entries)
            /\ \A k \in DOMAIN linker_entries :
                 /\ SegmentNodes[2 * k - 1].inputs = linker_entries[k].src_paths
                 /\ SegmentNodes[2 * k].output = linker_entries[k].object_path
       ELSE /\ Len(SegmentNodes) = Len(linker_entries)
            /\ \A k \in DOMAIN linker_entries :
                 SegmentNodes[k].output = linker_entries[k].object_path

(* C5: the link statement is written only after every segment has been     *)
(* processed, its implicit dependencies are built_objects, which then      *)
(* holds the output of every segment statement; built_objects only grows.  *)
C5_LinkAfterAll ==
    /\ [](LinkEmitted =>
            /\ pos > Len(linker_entries)
            /\ \A k \in DOMAIN ninja :
                 ninja[k].rule = "ld" =>
                    /\ ninja[k].implicit = built_objects
                    /\ \A j \in DOMAIN ninja :
                         ninja[j].rule \in {"as", "cc", "cpp"}
                            => ninja[j].output \in ninja[k].implicit)
    /\ [][built_objects \subseteq built_objects']_vars

C5_Witness ==
    /\ LinkEmitted
    /\ ~dual_objects
    /\ Len(SegmentNodes) >= 2
    /\ Cardinality(built_objects) >= 2

(* C6: with dual_objects every segment that reaches the recorder gets      *)
(* exactly one progress category, game or data; the recorder never ends    *)
(* with no category for a segment.                                         *)
C6_OneCategory ==
    /\ \A k \in DOMAIN objdiff_units :
         /\ Len(objdiff_units[k].progress_categories) = 1
         /\ objdiff_units[k].progress_categories[1] \in CATEGORY_MAP
    /\ error /= "UnboundLocalError"

(* C7 as stated: base_path is the target path with "target" replaced by    *)
(* build/obj/src when a source file with the unit's stem exists, and a     *)
(* path under the target root when none does.                              *)
C7_BasePathUnderTarget ==
    \A k \in DOMAIN objdiff_units :
        LET u == objdiff_units[k]
        IN  IF SourceExists(name(u.name))
            THEN u.base_path = "build/obj/src/" \o SubSeq(u.target_path, 8, Len(u.target_path))
            ELSE SubSeq(u.base_path, 1, 7) = "target/"

(* C7 amended: base_path is the target path with "target" replaced by      *)
(* build/obj/src when a source file with the unit's stem exists, and the   *)
(* segment's declared output path when none does.                          *)
C7_BasePath ==
    \A k \in DOMAIN objdiff_units :
        LET u == objdiff_units[k]
        IN  /\ SubSeq(u.target_path, 1, 7) = "target/"
            /\ IF SourceExists(name(u.name))
               THEN u.base_path = "build/obj/src/" \o SubSeq(u.target_path, 8, Len(u.target_path))
               ELSE u.base_path = Built[k].object_path

C7_Witness ==
    \E a, b \in DOMAIN objdiff_units :
        /\ SourceExists(name(objdiff_units[a].name))
        /\ Contains(name(objdiff_units[a].target_path), "target")
        /\ ~SourceExists(name(objdiff_units[b].name))

(* C10: after a completed run with dual_objects, target_path and base_path *)
(* of every unit are outputs of statements of the build graph.             *)
C10_ManifestNamesOutputs ==
    (Completed /\ dual_objects) =>
        \A k \in DOMAIN objdiff_units :
            /\ objdiff_units[k].target_path \in Outputs
            /\ objdiff_units[k].base_path \in Outputs

-----------------------------------------------------------------------------
(* The short-loop fix: OPCODE_PATTERN and replace_instructions_with_opcodes.*)
(* A file's content is the sequence of its lines: no element of the        *)
(* pattern matches a newline, and a match runs to the end of its line, so  *)
(* re.sub rewrites each line on its own.                                   *)

MaxRuns == 2

Digits == {"0", "1", "2", "3", "4", "5", "6", "7", "8", "9"}

Upper == {"A", "B", "C", "D", "E", "F", "G", "H", "I", "J", "K", "L", "M",
          "N", "O", "P", "Q", "R", "S", "T", "U", "V", "W", "X", "Y", "Z"}

Lower == {"a", "b", "c", "d", "e", "f", "g", "h", "i", "j", "k", "l", "m",
          "n", "o", "p", "q", "r", "s", "t", "u", "v", "w", "x", "y", "z"}

\* [0-9A-Z]
IsPairChar(c) == c \in Digits \cup Upper

\* \w
IsWordChar(c) == c \in Digits \cup Upper \cup Lower \cup {"_"}

\* The alternatives of INSTRUCTION_PART.
Mnemonics ==
    {"bne", "bnel", "beq", "beql", "beqz", "bnez", "bnezl", "beqzl", "bgez",
     "bgezl", "bgtz", "bgtzl", "blez", "blezl", "bltz", "bltzl", "b"}

\* \b at the boundary between positions k - 1 and k of s.
WordBoundary(s, k) ==
    LET before == k > 1 /\ IsWordChar(Char(s, k - 1))
        after  == k <= Len(s) /\ IsWordChar(Char(s, k))
    IN  before /= after

\* INSTRUCTION_PART matches at position m of s (it then runs to the end).
InstructionAt(s, m) ==
    /\ WordBoundary(s, m)
    /\ \E mn \in Mnemonics :
         /\ m + Len(mn) - 1 <= Len(s)
         /\ SubSeq(s, m, m + Len(mn) - 1) = mn
         /\ WordBoundary(s, m + Len(mn))

\* With the comment opening at i and group 1 ending at k: a space, four
\* pairs, " */", two spaces and a branch instruction follow.
TailAt(s, k) ==
    /\ k + 15 <= Len(s)
    /\ Char(s, k + 1) = " "
    /\ \A j \in (k + 2)..(k + 9) : IsPairChar(Char(s, j))
    /\ SubSeq(s, k + 10, k + 14) = " */  "
    /\ InstructionAt(s, k + 15)

\* The ends of group 1 for which OPCODE_PATTERN matches from position i.
GroupEnds(s, i) ==
    IF i + 2 <= Len(s) /\ SubSeq(s, i, i + 2) = "/* "
    THEN {k \in (i + 3)..Len(s) : TailAt(s, k)}
    ELSE {}

\* The positions at which OPCODE_PATTERN matches in the line s.
MatchStarts(s) == {i \in 1..Len(s) : GroupEnds(s, i) /= {}}

\* re.search(OPCODE_PATTERN, line)
Search(s) == MatchStarts(s) /= {}

\* Mutation of Replacement: the pairs are kept in their order.
Replacement_NoSwap(g1, h2, h3, h4, h5, g6) ==
    "/* " \o g1 \o " " \o h2 \o h3 \o h4 \o h5 \o " */  .word      0x"
          \o h2 \o h3 \o h4 \o h5 \o " /* " \o g6 \o " */"

\* r"/* \1 \2\3\4\5 */  .word      0x\5\4\3\2 /* \6 */"
Replacement(g1, h2, h3, h4, h5, g6) ==
    "/* " \o g1 \o " " \o h2 \o h3 \o h4 \o h5 \o " */  .word      0x"
          \o h5 \o h4 \o h3 \o h2 \o " /* " \o g6 \o " */"

\* re.sub on one line: the leftmost match, its group 1 as long as can be.
SubLine(s) ==
    IF ~Search(s) THEN s
    ELSE LET i == Min(MatchStarts(s))
             k == Max(GroupEnds(s, i))
         IN  SubSeq(s, 1, i - 1) \o
             Replacement(SubSeq(s, i + 3, k),
                         SubSeq(s, k + 2, k + 3), SubSeq(s, k + 4, k + 5),
                         SubSeq(s, k + 6, k + 7), SubSeq(s, k + 8, k + 9),
                         SubSeq(s, k + 15, Len(s)))

\* re.search on a file's content
SearchContent(content) == \E n \in DOMAIN content : Search(content[n])

\* re.sub on a file's content
SubContent(content) == [n \in DOMAIN content |-> SubLine(content[n])]

PROBLEMATIC_FUNCS ==
    {
      "func_00107760", "func_00107D68", "func_0010E998", "func_0010F568",
      "func_0012E2B8", "func_00139190", "func_00142470", "func_0014A398",
      "func_00123CA8", "func_00125270", "func_00144DC8", "func_0014D1B0",
      "func_0016BFD8", "func_00189A18", "func_0018FE80", "func_0017DC70",
      "func_00185878", "func_001A2608", "func_001A2BA8", "func_001ABCA8",
      "func_001AC560", "func_001ADA80", "func_001C7BA8", "func_001D43F0",
      "func_001D4498", "func_001DF858", "func_001DFBB0", "func_001E1D30",
      "func_001E7780", "func_001FEC88", "func_0022CF80", "func_00240A08",
      "func_00245AE8", "func_00278098", "func_0027C640", "func_0027D240",
      "func_0027EC50", "func_0028D6A8", "func_0028E4A0", "func_0028EC20",
      "func_0029A198", "func_002AA498", "func_002AA978", "func_002AADF8",
      "func_002AB278", "func_002AB778", "func_002ABAE8", "func_002AF090",
      "func_002B1F40", "func_002B71E8", "func_002B9288", "func_002B9688",
      "func_002C0460", "func_002CA090", "func_002F7A78", "func_002FC9B0",
      "func_0030A4C8", "func_00318BF8", "func_00319C28", "func_00327B78",
      "func_0032A680", "func_003326C0", "func_00333810", "func_00337B00",
      "func_00339120", "func_00339E68", "func_002FA958", "func_003120D0",
      "func_003374B0", "func_0033C5F8", "func_002FC288", "func_00302ED0",
      "func_00310370", "func_0033F640", "func_00303590", "func_0030BB10",
      "func_0030D8B8", "func_0031D298", "func_0032F0E0", "func_00335A80",
      "func_00335B84", "func_0034C230", "func_0030EC70", "func_00335258",
      "func_00336F9C", "func_0033739C", "func_0033B610", "func_00344A50" }

-----------------------------------------------------------------------------
(* The inputs of the short-loop fix: the files under asm/nonmatchings.      *)

SpacedLine == "/* bne 12 34 56 78 */  bne $a0, $a1, label"

PackedLine == "/* bne 12345678 */  bne $a0, $a1, label"

SplatBranch == "    /* 7760 00107760 0300A014 */  bnel       $a1, $zero, .L00107770"

SplatNop == "    /* 7764 00107764 00000000 */  nop"

SplatCall == "    /* 7768 00107768 0C041DE0 */  bal        func_00107780"

TwoComments == "/* a 11223344 */  b x /* c 55667788 */  b y"

Contents ==
    { <<SpacedLine>>,
      <<PackedLine>>,
      <<"glabel func", SplatBranch, SplatNop, SplatCall>>,
      <<SplatNop, SplatCall>>,
      <<TwoComments>> }

NmFiles ==
    { "asm/nonmatchings/text/func_00107760.s",
      "asm/nonmatchings/text/func_001A2608.s",
      "asm/nonmatchings/text/func_00100000.s",
      "asm/nonmatchings/text/func_00107D68.inc" }

\* nm_folder.rglob("*.s")
RglobS(tree) ==
    {p \in DOMAIN tree :
        /\ Contains(p, "asm/nonmatchings/")
        /\ Len(name(p)) >= 2
        /\ SubSeq(name(p), Len(name(p)) - 1, Len(name(p))) = ".s"}

\* build_stuff has returned and main goes on to the short-loop fix.
BuildStuffReturned ==
    /\ linker_entries = <<>>
    /\ skip_checksum = FALSE
    /\ objects_only = FALSE
    /\ dual_objects = FALSE
    /\ src_tree = {}
    /\ pos = 1
    /\ ninja = <<LinkNode({}), ElfNode, ChecksumNode>>
    /\ built_objects = {}
    /\ objdiff_units = <<>>
    /\ objdiff_json = Unwritten
    /\ status = "returned"
    /\ error = ""

PatchInit ==
    /\ BuildStuffReturned
    /\ split_output \in [NmFiles -> Contents]
    /\ asm_tree = split_output
    /\ scanning = TRUE
    /\ todo = RglobS(split_output)
    /\ written = {}
    /\ runs = 0
    /\ first_pass = <<>>

Build == <<Inputs, pos, ninja, built_objects, objdiff_units, objdiff_json, status, error>>

\* if p.stem not in PROBLEMATIC_FUNCS: continue
SkipFile(p) ==
    /\ scanning
    /\ p \in todo
    /\ stem(p) \notin PROBLEMATIC_FUNCS
    /\ todo' = todo \ {p}
    /\ UNCHANGED <<Build, split_output, asm_tree, scanning, written, runs, first_pass>>

\* re.search finds nothing: the file is read and left alone
LeaveFile(p) ==
    /\ scanning
    /\ p \in todo
    /\ stem(p) \in PROBLEMATIC_FUNCS
    /\ ~SearchContent(asm_tree[p])
    /\ todo' = todo \ {p}
    /\ UNCHANGED <<Build, split_output, asm_tree, scanning, written, runs, first_pass>>

\* re.search finds a match: re.sub, and the file is written back
PatchFile(p) ==
    /\ scanning
    /\ p \in todo
    /\ stem(p) \in PROBLEMATIC_FUNCS
    /\ SearchContent(asm_tree[p])
    /\ asm_tree' = [asm_tree EXCEPT ![p] = SubContent(@)]
    /\ written' = written \cup {p}
    /\ todo' = todo \ {p}
    /\ UNCHANGED <<Build, split_output, scanning, runs, first_pass>>

\* the for loop is exhausted and the function returns
PatchReturn ==
    /\ scanning
    /\ todo = {}
    /\ scanning' = FALSE
    /\ runs' = runs + 1
    /\ first_pass' = IF runs = 0 THEN asm_tree ELSE first_pass
    /\ UNCHANGED <<Build, split_output, asm_tree, todo, written>>

\* configure.py is run again on the same tree and reaches the fix again
PatchAgain ==
    /\ ~scanning
    /\ runs >= 1
    /\ runs < MaxRuns
    /\ scanning' = TRUE
    /\ todo' = RglobS(asm_tree)
    /\ written' = {}
    /\ UNCHANGED <<Build, split_output, asm_tree, runs, first_pass>>

PatchNext ==
    \/ \E p \in NmFiles : SkipFile(p)
    \/ \E p \in NmFiles : LeaveFile(p)
    \/ \E p \in NmFiles : PatchFile(p)
    \/ PatchReturn
    \/ PatchAgain

PatchSpec == PatchInit /\ [][PatchNext]_vars

-----------------------------------------------------------------------------
(* Vocabulary of the properties of the short-loop fix.                      *)

\* The loop of the first call has gone past the file p.
Visited(p) == runs >= 1 \/ (scanning /\ p \notin todo)

\* What the file held when the call in progress (or the last one) began.
Before(p) == IF runs = 0 \/ (runs = 1 /\ ~scanning) THEN split_output[p] ELSE first_pass[p]

(* C8: a second call leaves every file as the first call left it, and a    *)
(* call writes no file in which OPCODE_PATTERN has no match.               *)
C8_Idempotent ==
    /\ runs >= 2 => asm_tree = first_pass
    /\ \A p \in written : SearchContent(Before(p))

(* C9 as stated: in a file named after a function of PROBLEMATIC_FUNCS the *)
(* line with the pairs 12 34 56 78 becomes a .word 0x78563412 line; in     *)
(* any other file it stays as it is.                                       *)
C9_SpacedPairsRewritten ==
    \A p \in RglobS(split_output) : \A n \in DOMAIN split_output[p] :
        (Visited(p) /\ split_output[p][n] = SpacedLine) =>
            asm_tree[p][n] =
                IF stem(p) \in PROBLEMATIC_FUNCS
                THEN "/* bne 12 34 56 78 */  .word      0x78563412 /* bne $a0, $a1, label */"
                ELSE SpacedLine

(* C9 amended: in a file named after a function of PROBLEMATIC_FUNCS the   *)
(* line whose comment ends in the eight digits 12345678 becomes the        *)
(* comment, .word 0x78563412 and the instruction as a comment; the line    *)
(* with the spaced pairs 12 34 56 78 is not rewritten; in any other file   *)
(* both stay as they are.                                                  *)
C9_PackedPairsRewritten ==
    \A p \in RglobS(split_output) : \A n \in DOMAIN split_output[p] :
        /\ (Visited(p) /\ split_output[p][n] = PackedLine) =>
              asm_tree[p][n] =
                 IF stem(p) \in PROBLEMATIC_FUNCS
                 THEN "/* bne 12345678 */  .word      0x78563412 /* bne $a0, $a1, label */"
                 ELSE PackedLine
        /\ split_output[p][n] = SpacedLine => asm_tree[p][n] = SpacedLine

C9_Witness ==
    \E p, q \in RglobS(split_output) :
        /\ stem(p) \in PROBLEMATIC_FUNCS /\ stem(q) \notin PROBLEMATIC_FUNCS
        /\ split_output[p] = <<PackedLine>> /\ split_output[q] = <<PackedLine>>
        /\ p \in written
        /\ runs >= 1
        /\ asm_tree[p] /= split_output[p]
        /\ asm_tree[q] = split_output[q]

====
